---- MODULE Spec2Model ----
(***************************************************************************)
(* Model of src/app.py: the "shared network shoutbox".  One row of the     *)
(* `messages` table per network fingerprint, an external media store       *)
(* (Cloudinary) holding the uploaded images, and the three request         *)
(* handlers /send, /get and /delete, each cut into steps at its calls to   *)
(* the database and to the media store.                                    *)
(*                                                                         *)
(* Python values: a str is a sequence of one-character strings, None is    *)
(* the tuple None below (no str of the model equals it), a FileStorage is  *)
(* a record, a table is the set of its rows.                               *)
(***************************************************************************)
EXTENDS Integers, Sequences, FiniteSets, TLC

\* ---------------------------------------------------------------- bounds
\* assets the media store has room for: once full, every upload fails
MaxAssets == 2

\* the request handlers (threads of the server); Spec runs "h1" alone, so
\* that every request runs to completion before the next one starts
Procs == {"h1", "h2"}

\* ------------------------------------------------------- python values
None == <<"<None>">>

\* truthiness of a str-or-None value
Truthy(v) == v # None /\ v # <<>>

\* python `v or None`
OrNone(v) == IF Truthy(v) THEN v ELSE None

RECURSIVE lstrip(_)
lstrip(s) == IF s # <<>> /\ Head(s) = " " THEN lstrip(Tail(s)) ELSE s

RECURSIVE rstrip(_)
rstrip(s) == IF s # <<>> /\ s[Len(s)] = " " THEN rstrip(SubSeq(s, 1, Len(s) - 1)) ELSE s

\* str.strip()
strip(s) == rstrip(lstrip(s))

RECURSIVE split_first(_)
\* str.split(",")[0]
split_first(s) == IF s = <<>> \/ Head(s) = "," THEN <<>> ELSE <<Head(s)>> \o split_first(Tail(s))

\* how an f-string renders a str-or-None value
fmt(v) == IF v = None THEN <<"N", "o", "n", "e">> ELSE v

\* ------------------------------------------------------------ constants
MAX_IMAGE_BYTES == 5 * 1024 * 1024

ALLOWED_MIMETYPES == {"image/png", "image/jpeg", "image/webp", "image/gif"}

\* --------------------------------------------------- fingerprint resolver
\* hashlib.sha256(...).hexdigest(): a collision-free digest of its input
sha256(s) == [sha256 |-> s]

\* lines 64-66: the effective client address
public_ip(c) ==
    LET hdr == c.x_forwarded_for
        ip0 == IF hdr # None THEN hdr ELSE c.remote_addr
    IN  IF Truthy(ip0) THEN strip(split_first(ip0)) ELSE ip0

\* line 67: the declared subnet, from the header or else the query
local_subnet(c) == IF Truthy(c.x_local_subnet) THEN c.x_local_subnet ELSE c.arg_local_subnet

\* the string get_network_id hashes (None when there is nothing to hash)
raw_id_ignores_subnet(c) == public_ip(c)

raw_id(c) ==
    IF Truthy(local_subnet(c))
    THEN fmt(public_ip(c)) \o <<"|">> \o local_subnet(c)
    ELSE public_ip(c)

\* None.encode() raises: the request ends in an unhandled exception
resolver_raises(c) == raw_id(c) = None

get_network_id(c) == sha256(raw_id(c))

\* ------------------------------------------------------- image validation
NoFile == [present |-> FALSE, declares_length |-> FALSE, size |-> 0, mimetype |-> ""]

\* (ok, err) of validate_image_file; content_length is the part's declared
\* length, f.size when the part declares one and absent otherwise
validate_size_only(f) ==
    IF ~f.present THEN <<FALSE, "No file">>
    ELSE IF f.declares_length /\ f.size > MAX_IMAGE_BYTES THEN <<FALSE, "File too large">>
    ELSE <<TRUE, "">>

validate_image_file(f) ==
    IF ~f.present THEN <<FALSE, "No file">>
    ELSE IF f.declares_length /\ f.size > MAX_IMAGE_BYTES THEN <<FALSE, "File too large">>
    ELSE IF f.mimetype \notin ALLOWED_MIMETYPES THEN <<FALSE, "Unsupported image type">>
    ELSE <<TRUE, "">>

\* ------------------------------------------------------- request inputs
Conn(addr, xff, hsub, asub) ==
    [remote_addr |-> addr, x_forwarded_for |-> xff, x_local_subnet |-> hsub, arg_local_subnet |-> asub]

\* connection metadata of the requests the handlers serve: a client of network
\* "1" connecting directly, one arriving through a proxy, one whose address
\* the server does not know
Connections ==
    { Conn(<<"1">>, None, None, None),
      Conn(<<"2">>, <<" ", "1", " ", ",", "3">>, None, None),
      Conn(None, None, None, None) }

\* the form field `text` (None: absent)
Texts == { None, <<" ">>, <<" ", "a">>, <<"b">> }

File(declares, size, mimetype) ==
    [present |-> TRUE, declares_length |-> declares, size |-> size, mimetype |-> mimetype]

\* the multipart part `image`
Files ==
    { NoFile,
      File(TRUE, 1024, "image/png"),
      File(TRUE, MAX_IMAGE_BYTES + 1, "image/gif"),
      File(FALSE, MAX_IMAGE_BYTES + 1, "image/jpeg"),
      File(TRUE, 1024, "text/plain") }

\* the header X-Device-ID (None: absent)
DeviceHeaders == { None, <<>>, <<"x">>, <<"y">> }

\* ----------------------------------------------------------------- state
VARIABLES
    messages,       \* the table `messages`: a set of rows
    assets,         \* media store: asset number -> "unused" | "live" | "destroyed"
    uploaded_for,   \* asset number -> network_id of the request that uploaded it
    destroy_calls,  \* asset number -> destroy calls made for it
    pc,             \* handler -> its position
    h,              \* handler -> its request, its locals and, once it returned, its response
    resolver        \* SpecResolver: the two latest calls of get_network_id on their own

vars == <<messages, assets, uploaded_for, destroy_calls, pc, h, resolver>>

AssetIds == 1..MaxAssets

\* what cloudinary.uploader.upload returns for asset n
public_id_of(n) == <<"public_id", n>>

secure_url_of(n) == <<"secure_url", n>>

asset_of(public_id) == public_id[2]

Used == {n \in AssetIds : assets[n] # "unused"}

NoLocals ==
    [op |-> "none", network_id |-> sha256(None), form_text |-> None, text |-> <<>>,
     image_file |-> NoFile, device_header |-> None, device_id |-> None,
     old_public_id |-> None, image_url |-> None, public_id |-> None,
     owner_device_id |-> None, warned |-> FALSE, res |-> "none", body |-> {},
     before_messages |-> {}, before_assets |-> <<>>, before_destroy_calls |-> <<>>]

\* the columns a response carries (updated_at is not modelled)
Columns(r) ==
    [text |-> r.text, image_url |-> r.image_url, public_id |-> r.public_id,
     owner_device_id |-> r.owner_device_id]

Rows(network_id) == {r \in messages : r.network_id = network_id}

Init ==
    /\ messages = {}
    /\ assets = [n \in AssetIds |-> "unused"]
    /\ uploaded_for = [n \in AssetIds |-> sha256(None)]
    /\ destroy_calls = [n \in AssetIds |-> 0]
    /\ pc = [p \in Procs |-> "idle"]
    /\ h = [p \in Procs |-> NoLocals]
    /\ resolver = <<>>

\* the handler returns its response
Return(p, locals, res, body) ==
    /\ pc' = [pc EXCEPT ![p] = "responded"]
    /\ h' = [h EXCEPT ![p] = [locals EXCEPT !.res = res, !.body = body]]
    /\ UNCHANGED resolver

Goto(p, label, locals) ==
    /\ pc' = [pc EXCEPT ![p] = label]
    /\ h' = [h EXCEPT ![p] = locals]
    /\ UNCHANGED resolver

\* what a handler notes of the stores when it picks up a request
Begin(op, network_id) ==
    [NoLocals EXCEPT !.op = op, !.network_id = network_id, !.before_messages = messages,
                     !.before_assets = assets, !.before_destroy_calls = destroy_calls]

\* cloudinary.uploader.destroy(public_id): raises (ok = FALSE) or reclaims
DestroySkipped(public_id, ok) ==
    /\ destroy_calls' = destroy_calls
    /\ assets' = assets

Destroy(public_id, ok) ==
    /\ destroy_calls' = [destroy_calls EXCEPT ![asset_of(public_id)] = @ + 1]
    /\ assets' = IF ok THEN [assets EXCEPT ![asset_of(public_id)] = "destroyed"] ELSE assets

\* the messages of the responses, under the names the design gives them
Saved == "Saved"

Deleted == "Deleted"

Found == "Found"

InvalidRequest == "Text or image required"

InvalidMedia == {"No file", "File too large", "Unsupported image type"}

MediaUploadFailed == "Image upload failed"

StoreError == "Database error"

NotFound == {"No message found", "No message to delete"}

Forbidden == "Not authorized to delete (not owner)"

Unhandled == "Internal Server Error"

\* ------------------------------------------------------------- /send
\* INSERT ... ON CONFLICT (network_id) DO UPDATE SET <every column> = EXCLUDED.<column>
UpsertDoNothingOnConflict(row) ==
    IF Rows(row.network_id) = {} THEN messages \cup {row} ELSE messages

UpsertKeepsOwner(row) ==
    IF Rows(row.network_id) = {} THEN messages \cup {row}
    ELSE { IF r.network_id # row.network_id THEN r
           ELSE [r EXCEPT !.text = row.text,
                          !.image_url = row.image_url,
                          !.public_id = row.public_id] : r \in messages }

UpsertForgetsImageUrl(row) ==
    IF Rows(row.network_id) = {} THEN messages \cup {row}
    ELSE { IF r.network_id # row.network_id THEN r
           ELSE [r EXCEPT !.text = row.text,
                          !.public_id = row.public_id,
                          !.owner_device_id = row.owner_device_id] : r \in messages }

UpsertKeepsUnsupplied(row) ==
    IF Rows(row.network_id) = {} THEN messages \cup {row}
    ELSE { IF r.network_id # row.network_id THEN r
           ELSE [r EXCEPT !.text = IF row.text # None THEN row.text ELSE r.text,
                          !.image_url = IF row.public_id # None THEN row.image_url ELSE r.image_url,
                          !.public_id = IF row.public_id # None THEN row.public_id ELSE r.public_id,
                          !.owner_device_id = row.owner_device_id] : r \in messages }

Upsert(row) ==
    IF Rows(row.network_id) = {} THEN messages \cup {row}
    ELSE { IF r.network_id # row.network_id THEN r
           ELSE [r EXCEPT !.text = row.text,
                          !.image_url = row.image_url,
                          !.public_id = row.public_id,
                          !.owner_device_id = row.owner_device_id] : r \in messages }

\* line 92: the request carries neither text nor image
NothingOnlyIfTextIsNone(text, image_file) == text = None /\ ~image_file.present

nothing_to_send(text, image_file) == ~Truthy(text) /\ ~image_file.present

\* lines 87-109: read the request, resolve the network, reject an empty
\* request, SELECT the old public_id, validate the image
send_begin(p, c, form_text, image_file, device_header, db_ok) ==
    /\ pc[p] = "idle"
    /\ UNCHANGED <<messages, assets, uploaded_for, destroy_calls>>
    /\ LET text == strip(IF Truthy(form_text) THEN form_text ELSE <<>>)
           network_id == get_network_id(c)
           row_ids == {r.public_id : r \in {r \in Rows(network_id) : Truthy(r.public_id)}}
           old_public_id == IF row_ids = {} THEN None ELSE CHOOSE x \in row_ids : TRUE
           locals == [Begin("send", network_id) EXCEPT
                         !.form_text = form_text, !.text = text,
                         !.image_file = image_file, !.device_header = device_header,
                         !.device_id = OrNone(device_header)]
           ok_err == validate_image_file(image_file)
       IN  IF resolver_raises(c) THEN Return(p, locals, Unhandled, {})
           ELSE IF nothing_to_send(text, image_file) THEN Return(p, locals, InvalidRequest, {})
           ELSE IF ~db_ok THEN Return(p, locals, StoreError, {})
           ELSE IF ~image_file.present
                THEN Goto(p, "send_upsert", [locals EXCEPT !.old_public_id = old_public_id])
           ELSE IF ~ok_err[1] THEN Return(p, locals, ok_err[2], {})
           ELSE Goto(p, "send_upload", [locals EXCEPT !.old_public_id = old_public_id])

\* lines 110-116: cloudinary.uploader.upload
send_upload_after_destroy(p, ok) ==
    /\ pc[p] = "send_upload"
    /\ UNCHANGED messages
    /\ IF ok /\ Used # AssetIds
       THEN LET n == CHOOSE n \in AssetIds :
                        assets[n] = "unused" /\ \A m \in AssetIds : m < n => assets[m] # "unused"
            IN  /\ assets' = [assets EXCEPT ![n] = "live"]
                /\ uploaded_for' = [uploaded_for EXCEPT ![n] = h[p].network_id]
                /\ UNCHANGED destroy_calls
                /\ Goto(p, IF h[p].old_public_id # None THEN "send_destroy" ELSE "send_upsert",
                        [h[p] EXCEPT !.image_url = secure_url_of(n), !.public_id = public_id_of(n)])
       ELSE /\ IF h[p].old_public_id # None
               THEN Destroy(h[p].old_public_id, TRUE)
               ELSE UNCHANGED <<assets, destroy_calls>>
            /\ UNCHANGED uploaded_for
            /\ Return(p, h[p], MediaUploadFailed, {})

send_upload(p, ok) ==
    /\ pc[p] = "send_upload"
    /\ UNCHANGED <<messages, destroy_calls>>
    /\ IF ok /\ Used # AssetIds
       THEN LET n == CHOOSE n \in AssetIds :
                        assets[n] = "unused" /\ \A m \in AssetIds : m < n => assets[m] # "unused"
            IN  /\ assets' = [assets EXCEPT ![n] = "live"]
                /\ uploaded_for' = [uploaded_for EXCEPT ![n] = h[p].network_id]
                /\ Goto(p, IF h[p].old_public_id # None THEN "send_destroy" ELSE "send_upsert",
                        [h[p] EXCEPT !.image_url = secure_url_of(n), !.public_id = public_id_of(n)])
       ELSE /\ UNCHANGED <<assets, uploaded_for>>
            /\ Return(p, h[p], MediaUploadFailed, {})

\* lines 119-123: best-effort destroy of the old image
send_destroy_surfaces_failure(p, ok) ==
    /\ pc[p] = "send_destroy"
    /\ Destroy(h[p].old_public_id, ok)
    /\ UNCHANGED <<messages, uploaded_for>>
    /\ IF ok
       THEN Goto(p, "send_upsert", h[p])
       ELSE Return(p, [h[p] EXCEPT !.warned = TRUE], MediaUploadFailed, {})

send_destroy(p, ok) ==
    /\ pc[p] = "send_destroy"
    /\ Destroy(h[p].old_public_id, ok)
    /\ UNCHANGED <<messages, uploaded_for>>
    /\ Goto(p, "send_upsert", [h[p] EXCEPT !.warned = ~ok])

\* lines 126-152: the upsert, its commit and the response
send_upsert(p, db_ok) ==
    /\ pc[p] = "send_upsert"
    /\ UNCHANGED <<assets, uploaded_for, destroy_calls>>
    /\ IF db_ok
       THEN LET row == [network_id |-> h[p].network_id, text |-> OrNone(h[p].text),
                        image_url |-> h[p].image_url, public_id |-> h[p].public_id,
                        owner_device_id |-> h[p].device_id]
            IN  /\ messages' = Upsert(row)
                /\ Return(p, h[p], Saved,
                          {Columns(r) : r \in {r \in messages' : r.network_id = row.network_id}})
       ELSE /\ UNCHANGED messages
            /\ Return(p, h[p], StoreError, {})

\* ------------------------------------------------------------- /get
\* lines 159-175: the lookup and the response it gives
get_response(network_id) ==
    IF Rows(network_id) # {}
    THEN <<Found, {Columns(r) : r \in Rows(network_id)}>>
    ELSE <<"No message found", {}>>

\* lines 155-178
get_message(p, c, db_ok) ==
    /\ pc[p] = "idle"
    /\ UNCHANGED <<messages, assets, uploaded_for, destroy_calls>>
    /\ LET network_id == get_network_id(c)
           locals == Begin("get", network_id)
       IN  IF resolver_raises(c) THEN Return(p, locals, Unhandled, {})
           ELSE IF ~db_ok THEN Return(p, locals, StoreError, {})
           ELSE Return(p, locals, get_response(network_id)[1], get_response(network_id)[2])

\* ----------------------------------------------------------- /delete
\* line 194: the ownership check
not_owner_any_mismatch(owner_device_id, device_id) ==
    owner_device_id # device_id

not_owner(owner_device_id, device_id) ==
    Truthy(owner_device_id) /\ Truthy(device_id) /\ owner_device_id # device_id

\* lines 181-195: resolve the network, SELECT the row, check the owner
delete_begin_without_row_check(p, c, device_header, db_ok) ==
    /\ pc[p] = "idle"
    /\ UNCHANGED <<messages, assets, uploaded_for, destroy_calls>>
    /\ LET network_id == get_network_id(c)
           device_id == OrNone(device_header)
           locals == [Begin("delete", network_id) EXCEPT
                         !.device_header = device_header, !.device_id = device_id]
           found == {[public_id |-> r.public_id, owner_device_id |-> r.owner_device_id] :
                        r \in Rows(network_id)}
           row == IF found = {} THEN [public_id |-> None, owner_device_id |-> None]
                  ELSE CHOOSE r \in found : TRUE
           read == [locals EXCEPT !.public_id = row.public_id,
                                  !.owner_device_id = row.owner_device_id]
       IN  IF resolver_raises(c) THEN Return(p, locals, Unhandled, {})
           ELSE IF ~db_ok THEN Return(p, locals, StoreError, {})
           ELSE IF not_owner(row.owner_device_id, device_id)
                THEN Return(p, read, Forbidden, {})
           ELSE Goto(p, "delete_delete", read)

delete_begin(p, c, device_header, db_ok) ==
    /\ pc[p] = "idle"
    /\ UNCHANGED <<messages, assets, uploaded_for, destroy_calls>>
    /\ LET network_id == get_network_id(c)
           device_id == OrNone(device_header)
           locals == [Begin("delete", network_id) EXCEPT
                         !.device_header = device_header, !.device_id = device_id]
       IN  IF resolver_raises(c) THEN Return(p, locals, Unhandled, {})
           ELSE IF ~db_ok THEN Return(p, locals, StoreError, {})
           ELSE IF Rows(network_id) = {} THEN Return(p, locals, "No message to delete", {})
           ELSE LET row == CHOOSE r \in Rows(network_id) : TRUE
                    read == [locals EXCEPT !.public_id = row.public_id,
                                           !.owner_device_id = row.owner_device_id]
                IN  IF not_owner(row.owner_device_id, device_id)
                    THEN Return(p, read, Forbidden, {})
                    ELSE Goto(p, "delete_delete", read)

\* lines 198-199: DELETE and commit
delete_delete(p, db_ok) ==
    /\ pc[p] = "delete_delete"
    /\ UNCHANGED <<assets, uploaded_for, destroy_calls>>
    /\ IF db_ok
       THEN /\ messages' = messages \ Rows(h[p].network_id)
            /\ IF Truthy(h[p].public_id)
               THEN Goto(p, "delete_destroy", h[p])
               ELSE Return(p, h[p], Deleted, {})
       ELSE /\ UNCHANGED messages
            /\ Return(p, h[p], StoreError, {})

\* lines 202-208: best-effort destroy of the image, then the response
delete_destroy(p, ok) ==
    /\ pc[p] = "delete_destroy"
    /\ Destroy(h[p].public_id, ok)
    /\ UNCHANGED <<messages, uploaded_for>>
    /\ Return(p, [h[p] EXCEPT !.warned = ~ok], Deleted, {})

\* the response is sent; the handler waits for its next request
next_request(p) ==
    /\ pc[p] = "responded"
    /\ pc' = [pc EXCEPT ![p] = "idle"]
    /\ h' = [h EXCEPT ![p] = NoLocals]
    /\ UNCHANGED <<messages, assets, uploaded_for, destroy_calls, resolver>>

\* ------------------------------------------------------ specifications
SendBegin(p) ==
    \E c \in Connections, t \in Texts, f \in Files, d \in DeviceHeaders, db_ok \in BOOLEAN :
        send_begin(p, c, t, f, d, db_ok)

SendUpload(p) == \E ok \in BOOLEAN : send_upload(p, ok)

SendDestroy(p) == \E ok \in BOOLEAN : send_destroy(p, ok)

SendUpsert(p) == \E db_ok \in BOOLEAN : send_upsert(p, db_ok)

GetMessage(p) == \E c \in Connections, db_ok \in BOOLEAN : get_message(p, c, db_ok)

DeleteBegin(p) ==
    \E c \in Connections, d \in DeviceHeaders, db_ok \in BOOLEAN : delete_begin(p, c, d, db_ok)

DeleteDelete(p) == \E db_ok \in BOOLEAN : delete_delete(p, db_ok)

DeleteDestroy(p) == \E ok \in BOOLEAN : delete_destroy(p, ok)

\* one handler: every request runs to completion before the next starts
Next ==
    \/ SendBegin("h1")
    \/ SendUpload("h1")
    \/ SendDestroy("h1")
    \/ SendUpsert("h1")
    \/ GetMessage("h1")
    \/ DeleteBegin("h1")
    \/ DeleteDelete("h1")
    \/ DeleteDestroy("h1")
    \/ next_request("h1")

Spec == Init /\ [][Next]_vars

\* two handlers serving requests of one network at the same time, their steps
\* interleaved; the stores answer every call.  The writes are a text of
\* device "x", an image of device "y" and a text with an image of device
\* "x"; either device deletes.
ConcSends ==
    { [text |-> <<"b">>, image |-> NoFile, device |-> <<"x">>],
      [text |-> None, image |-> File(TRUE, 1024, "image/png"), device |-> <<"y">>],
      [text |-> <<" ", "a">>, image |-> File(TRUE, 1024, "image/png"), device |-> <<"x">>] }

ConcDeviceHeaders == { <<"x">>, <<"y">> }

ConcStep(p) ==
    \/ \E r \in ConcSends :
           send_begin(p, Conn(<<"1">>, None, None, None), r.text, r.image, r.device, TRUE)
    \/ send_upload(p, TRUE)
    \/ send_destroy(p, TRUE)
    \/ send_upsert(p, TRUE)
    \/ \E d \in ConcDeviceHeaders :
           delete_begin(p, Conn(<<"1">>, None, None, None), d, TRUE)
    \/ delete_delete(p, TRUE)
    \/ delete_destroy(p, TRUE)
    \/ next_request(p)

NextConc == \E p \in Procs : ConcStep(p)

SpecConc == Init /\ [][NextConc]_vars

\* the resolver on its own: get_network_id called on any request metadata
ResolverInputs ==
    { Conn(addr, xff, hsub, asub) :
        addr \in {None, <<"1">>, <<"2">>},
        xff \in {None, <<>>, <<"1">>, <<" ", "1", " ", ",", "3">>, <<"1", "|", "s">>},
        hsub \in {None, <<>>, <<"s">>},
        asub \in {None, <<"s">>, <<"t">>} }

\* lines 62-69: one call, kept with the call before it
resolve(c) ==
    /\ resolver' = (IF resolver = <<>> THEN <<>> ELSE <<resolver[Len(resolver)]>>)
                       \o <<[conn |-> c,
                             out |-> [raised |-> resolver_raises(c),
                                      network_id |-> get_network_id(c)]]>>
    /\ UNCHANGED <<messages, assets, uploaded_for, destroy_calls, pc, h>>

Resolve == \E c \in ResolverInputs : resolve(c)

SpecResolver == Init /\ [][Resolve]_vars

\* ------------------------------------------------------------- claims
\* handler p has returned the response of an `op` request
After(p, op) == pc[p] = "responded" /\ h[p].op = op

\* the request of handler p came with a network the resolver could name
Resolved(p) == h[p].network_id # sha256(None)

\* the rows of p's network when p picked up its request
BeforeRows(p) == {r \in h[p].before_messages : r.network_id = h[p].network_id}

\* neither store differs from what it was when p picked up its request:
\* no row written, no asset uploaded, no destroy call made
StoresUntouched(p) ==
    /\ messages = h[p].before_messages
    /\ assets = h[p].before_assets
    /\ destroy_calls = h[p].before_destroy_calls

\* a form text that is absent, empty or white space only
Blank(t) == t = None \/ \A i \in 1..Len(t) : t[i] = " "

\* C1: a write replaces only the fields it supplies: after a successful write
\* without an image a get returns the image_url and public_id the record had,
\* and after a successful write without a text it returns the text it had.
C1_WriteReplacesOnlySuppliedFields ==
    \A p \in Procs :
        After(p, "send") /\ h[p].res = Saved =>
            \A old \in BeforeRows(p), new \in get_response(h[p].network_id)[2] :
                /\ ~h[p].image_file.present =>
                       new.image_url = old.image_url /\ new.public_id = old.public_id
                /\ h[p].form_text = None => new.text = old.text

\* C2: when no request is in progress, every live asset is the one the record
\* of the network it was uploaded for names (so at most one per network), and
\* every asset no record names has had a destroy call and is not live.
C2_OneLiveAssetPerFingerprint ==
    (\A p \in Procs : pc[p] \in {"idle", "responded"}) =>
        \A n \in Used :
            \/ \E r \in messages :
                   r.network_id = uploaded_for[n] /\ r.public_id = public_id_of(n)
            \/ destroy_calls[n] > 0 /\ assets[n] = "destroyed"

\* p has returned from a successful write that put a new image in the place of one
MediaReplaced(p) ==
    /\ After(p, "send") /\ h[p].res = Saved
    /\ h[p].image_file.present /\ h[p].old_public_id # None

\* the record of p's network, as a get returns it, carries the image p uploaded
GetReturnsUploaded(p) ==
    /\ get_response(h[p].network_id)[1] = Found
    /\ \A r \in get_response(h[p].network_id)[2] :
           r.image_url = h[p].image_url /\ r.public_id = h[p].public_id

\* C3, as claimed: after the second of two successive successful image writes
\* the first image is reclaimed, the second is live and get returns the second.
C3_OldReclaimedNewLive ==
    \A p \in Procs :
        MediaReplaced(p) =>
            /\ assets[asset_of(h[p].old_public_id)] = "destroyed"
            /\ assets[asset_of(h[p].public_id)] = "live"
            /\ GetReturnsUploaded(p)

\* C3, amended: after the second write exactly one destroy call has been made
\* for the first image, which is reclaimed unless that call failed (a warning
\* is logged); the second image is live and get returns it.
C3_OldSubmittedNewLive ==
    \A p \in Procs :
        MediaReplaced(p) =>
            /\ destroy_calls[asset_of(h[p].old_public_id)]
                   = h[p].before_destroy_calls[asset_of(h[p].old_public_id)] + 1
            /\ ~h[p].warned => assets[asset_of(h[p].old_public_id)] = "destroyed"
            /\ assets[asset_of(h[p].public_id)] = "live"
            /\ GetReturnsUploaded(p)

C3_Witness ==
    \E p \in Procs :
        /\ MediaReplaced(p) /\ ~h[p].warned
        /\ assets[asset_of(h[p].old_public_id)] = "destroyed"

\* C4: a write whose upload fails returns MediaUploadFailed with the table, the
\* assets and the destroy calls as they were when it began (the record is
\* untouched, the old asset not reclaimed); a write with an image that returns
\* Saved has uploaded an asset.
C4_UploadFailureLeavesAllUntouched ==
    \A p \in Procs :
        After(p, "send") =>
            /\ h[p].res = MediaUploadFailed => StoresUntouched(p)
            /\ h[p].res = Saved /\ h[p].image_file.present =>
                   /\ h[p].public_id # None
                   /\ h[p].before_assets[asset_of(h[p].public_id)] = "unused"
                   /\ assets[asset_of(h[p].public_id)] # "unused"

C4_Witness ==
    \E p \in Procs :
        /\ After(p, "send") /\ h[p].res = MediaUploadFailed
        /\ h[p].old_public_id # None
        /\ assets[asset_of(h[p].old_public_id)] = "live"
        /\ BeforeRows(p) # {}

\* C5: in a write that replaces an image the destroy of the old public_id is
\* issued only once the new image is uploaded, and at every point of the write
\* the old or the new asset is live.
C5_OldOrNewAlwaysLive ==
    \A p \in Procs :
        /\ pc[p] \in {"send_upload", "send_destroy", "send_upsert"}
        /\ h[p].image_file.present /\ h[p].old_public_id # None
        => /\ pc[p] = "send_destroy" =>
                  h[p].public_id # None /\ assets[asset_of(h[p].public_id)] = "live"
           /\ \/ assets[asset_of(h[p].old_public_id)] = "live"
              \/ h[p].public_id # None /\ assets[asset_of(h[p].public_id)] = "live"

\* C6: a write with no text (absent, empty or blank) and no image returns
\* InvalidRequest, and neither the table nor the media store has changed.
C6_EmptyWriteRejected ==
    \A p \in Procs :
        After(p, "send") /\ Resolved(p) /\ Blank(h[p].form_text) /\ ~h[p].image_file.present =>
            h[p].res = InvalidRequest /\ StoresUntouched(p)

C6_Witness ==
    \E p \in Procs :
        /\ After(p, "send") /\ h[p].res = InvalidRequest
        /\ h[p].form_text = <<" ">>
        /\ BeforeRows(p) # {}

\* the image of p's request is larger than the ceiling
Oversize(p) == h[p].image_file.size > MAX_IMAGE_BYTES

\* the image of p's request is of a type outside the allow-list
BadType(p) == h[p].image_file.mimetype \notin ALLOWED_MIMETYPES

\* C7, as claimed: a write whose image is oversize or of a type outside the
\* allow-list returns InvalidMedia, whatever its text, and the table is unchanged.
C7_InvalidMediaRejected ==
    \A p \in Procs :
        After(p, "send") /\ Resolved(p) /\ h[p].image_file.present
            /\ (Oversize(p) \/ BadType(p)) =>
            h[p].res \in InvalidMedia /\ messages = h[p].before_messages

\* C7, amended: a write whose image declares a length above the ceiling or is
\* of a type outside the allow-list returns InvalidMedia, whatever its text,
\* unless the SELECT before the validation fails (StoreError); either way the
\* table and the media store are unchanged.
C7_DeclaredInvalidMediaRejected ==
    \A p \in Procs :
        After(p, "send") /\ Resolved(p) /\ h[p].image_file.present
            /\ ((h[p].image_file.declares_length /\ Oversize(p)) \/ BadType(p)) =>
            h[p].res \in InvalidMedia \cup {StoreError} /\ StoresUntouched(p)

C7_Witness ==
    \E p \in Procs :
        /\ After(p, "send") /\ h[p].res \in InvalidMedia
        /\ BadType(p) /\ Truthy(h[p].text)
        /\ BeforeRows(p) # {}

\* C8, as claimed: after a successful write a get returns the record the write
\* returned, with exactly the text and the image the write supplied.
C8_GetReturnsWhatWasWritten ==
    \A p \in Procs :
        After(p, "send") /\ h[p].res = Saved =>
            /\ get_response(h[p].network_id) = <<Found, h[p].body>>
            /\ \A r \in h[p].body :
                   /\ h[p].form_text # None => r.text = h[p].form_text
                   /\ h[p].image_file.present =>
                          r.image_url = h[p].image_url /\ r.public_id = h[p].public_id

\* C8, amended: the text a get returns is the supplied text with the white
\* space around it removed (absent when nothing is left).
C8_GetReturnsWhatWasWrittenTrimmed ==
    \A p \in Procs :
        After(p, "send") /\ h[p].res = Saved =>
            /\ get_response(h[p].network_id) = <<Found, h[p].body>>
            /\ \A r \in h[p].body :
                   /\ h[p].form_text # None => r.text = OrNone(strip(h[p].form_text))
                   /\ h[p].image_file.present =>
                          r.image_url = h[p].image_url /\ r.public_id = h[p].public_id

C8_Witness ==
    \E p \in Procs :
        /\ After(p, "send") /\ h[p].res = Saved
        /\ h[p].form_text = <<" ", "a">> /\ h[p].image_file.present
        /\ \E old \in BeforeRows(p) : old.text = <<"b">>
        /\ \E r \in h[p].body : r.text = <<"a">>

\* C9: a write never returns Forbidden, and after a successful write the
\* record's owner_device_id is the X-Device-ID of the request (none when the
\* header is absent or empty), whoever owned the record before.
C9_OwnerIsLastWriter ==
    \A p \in Procs :
        After(p, "send") =>
            /\ h[p].res # Forbidden
            /\ h[p].res = Saved =>
                   /\ Rows(h[p].network_id) # {}
                   /\ \A r \in Rows(h[p].network_id) :
                          r.owner_device_id =
                              IF Truthy(h[p].device_header) THEN h[p].device_header ELSE None

C9_Witness ==
    \E p \in Procs :
        /\ After(p, "send") /\ h[p].res = Saved
        /\ h[p].device_header = <<"y">>
        /\ \E old \in BeforeRows(p) : old.owner_device_id = <<"x">>

\* the record p's request found has an owner, the request names a device,
\* and the two differ
OwnerMismatch(p) ==
    \E r \in BeforeRows(p) :
        /\ r.owner_device_id # None
        /\ Truthy(h[p].device_header)
        /\ r.owner_device_id # h[p].device_header

\* C10, as claimed: a delete on an existing record returns Forbidden exactly
\* when the owner is set, a requester is named and they differ, leaving the
\* record and its asset as they were; every other delete on it succeeds.
C10_ForbiddenExactlyOnMismatch ==
    \A p \in Procs :
        After(p, "delete") /\ Resolved(p) /\ BeforeRows(p) # {} =>
            /\ h[p].res = Forbidden <=> OwnerMismatch(p)
            /\ h[p].res = Forbidden => StoresUntouched(p)
            /\ ~OwnerMismatch(p) => h[p].res = Deleted

\* C10, amended: ... unless the store fails: a delete on an existing record
\* returns Forbidden only on such a mismatch, and then nothing has changed; on
\* a mismatch it returns Forbidden or StoreError, otherwise Deleted or StoreError.
C10_ForbiddenOnlyOnMismatch ==
    \A p \in Procs :
        After(p, "delete") /\ Resolved(p) /\ BeforeRows(p) # {} =>
            /\ h[p].res = Forbidden => OwnerMismatch(p) /\ StoresUntouched(p)
            /\ OwnerMismatch(p) => h[p].res \in {Forbidden, StoreError}
            /\ ~OwnerMismatch(p) => h[p].res \in {Deleted, StoreError}

C10_Witness ==
    \E p \in Procs :
        /\ After(p, "delete") /\ h[p].res = Forbidden
        /\ \E r \in Rows(h[p].network_id) :
               r.public_id # None /\ assets[asset_of(r.public_id)] = "live"

\* C11, as claimed: a delete on a network with no record returns NotFound,
\* whatever the requester, and neither store has changed.
C11_DeleteOfNothingIsNotFound ==
    \A p \in Procs :
        After(p, "delete") /\ Resolved(p) /\ BeforeRows(p) = {} =>
            h[p].res = "No message to delete" /\ StoresUntouched(p)

\* C11, amended: ... returns NotFound unless the SELECT fails (StoreError);
\* either way neither store has changed.
C11_DeleteOfNothingChangesNothing ==
    \A p \in Procs :
        After(p, "delete") /\ Resolved(p) /\ BeforeRows(p) = {} =>
            h[p].res \in {"No message to delete", StoreError} /\ StoresUntouched(p)

C11_Witness ==
    \E p \in Procs :
        /\ After(p, "delete") /\ h[p].res = "No message to delete"
        /\ h[p].device_header = <<"x">>
        /\ \E n \in AssetIds : assets[n] = "live"

\* C12: after a successful delete a get on the same network finds nothing;
\* the row is gone when the destroy is issued; the public_id the row held has
\* had exactly one destroy call from this delete, and when the row held none
\* the delete made no destroy call.
C12_DeleteRemovesThenReclaimsOnce ==
    \A p \in Procs :
        /\ pc[p] = "delete_destroy" => Rows(h[p].network_id) = {}
        /\ After(p, "delete") /\ h[p].res = Deleted =>
               /\ get_response(h[p].network_id) = <<"No message found", {}>>
               /\ \A r \in BeforeRows(p), n \in AssetIds :
                      destroy_calls[n] = h[p].before_destroy_calls[n]
                          + (IF r.public_id = public_id_of(n) THEN 1 ELSE 0)

C12_Witness ==
    \E p \in Procs :
        /\ After(p, "delete") /\ h[p].res = Deleted
        /\ \E r \in BeforeRows(p) :
               r.public_id # None /\ destroy_calls[asset_of(r.public_id)] = 1

C14_UrlAndRefTogether ==
    \A r \in messages : (r.image_url = None) <=> (r.public_id = None)

C14_Witness ==
    \E p \in Procs :
        /\ After(p, "send") /\ h[p].res = Saved /\ ~h[p].image_file.present
        /\ \E old \in BeforeRows(p) : old.image_url # None /\ old.public_id # None
        /\ \A r \in messages : r.image_url = None /\ r.public_id = None

\* C16: the resolver never fails: whatever the connection address, the
\* forwarded-for header and the subnet hint, it yields a fingerprint.
C16_ResolverAlwaysYields ==
    \A i \in 1..Len(resolver) : ~resolver[i].out.raised

\* C17: two calls with the same inputs yield the same fingerprint, and for
\* the same effective address a call with a non-empty hint yields another
\* fingerprint than a call with no hint.
C17_DeterministicAndHintSensitive ==
    \A i, j \in 1..Len(resolver) :
        LET a == resolver[i]
            b == resolver[j]
        IN  /\ a.conn = b.conn => a.out = b.out
            /\ /\ public_ip(a.conn) = public_ip(b.conn)
               /\ ~Truthy(local_subnet(a.conn))
               /\ Truthy(local_subnet(b.conn))
               => a.out # b.out

C17_Witness ==
    /\ Len(resolver) = 2
    /\ resolver[1].conn = Conn(<<"2">>, <<" ", "1", " ", ",", "3">>, <<>>, None)
    /\ resolver[2].conn = Conn(<<"1">>, None, None, <<"s">>)
    /\ ~resolver[1].out.raised
    /\ resolver[1].out # resolver[2].out

\* the row the write of handler p asks the upsert to store
RowOf(p) ==
    [network_id |-> h[p].network_id, text |-> OrNone(h[p].text),
     image_url |-> h[p].image_url, public_id |-> h[p].public_id,
     owner_device_id |-> h[p].device_id]

\* this step is the committing upsert of handler p
Commits(p) == pc[p] = "send_upsert" /\ pc'[p] = "responded" /\ h'[p].res = Saved

\* this step is the DELETE of handler p
Deletes(p) == pc[p] = "delete_delete" /\ pc'[p] # "delete_delete" /\ h'[p].res # StoreError

\* C18: however two writes to one network interleave, each committing upsert
\* leaves exactly one row for the network, every field of it that write's,
\* and only an upsert or a DELETE changes the table: once both writes have
\* returned the row is wholly that of the write that committed last.
C18_LastCommitWins ==
    [][ /\ \A p \in Procs :
               Commits(p) => {r \in messages' : r.network_id = h[p].network_id} = {RowOf(p)}
        /\ messages' # messages => \E p \in Procs : Commits(p) \/ Deletes(p)
      ]_vars

\* both handlers have returned from successful writes that each began before
\* the other committed, and the row is the second one's
C18_Witness ==
    /\ After("h1", "send") /\ h["h1"].res = Saved
    /\ After("h2", "send") /\ h["h2"].res = Saved
    /\ h["h1"].before_messages = {} /\ h["h2"].before_messages = {}
    /\ h["h1"].image_file.present /\ ~h["h2"].image_file.present
    /\ messages = {RowOf("h2")}

\* C19: in every state the public_id of every row names a live asset.
C19_RecordRefIsLive ==
    \A r \in messages : r.public_id # None => assets[asset_of(r.public_id)] = "live"

\* C20: when a delete removes the row, the row it removes is one the requester
\* may delete and holds the public_id the delete read (and will destroy).
C20_DeleteRemovesWhatItRead ==
    [][ \A p \in Procs :
            Deletes(p) =>
                \A r \in Rows(h[p].network_id) :
                    /\ ~not_owner(r.owner_device_id, h[p].device_id)
                    /\ r.public_id = h[p].public_id
      ]_vars

====
